---- MODULE Spec2Model ----
(***************************************************************************)
(* A model of dyndbmutex: a distributed mutex whose only shared state is   *)
(* one DynamoDB item per lock name.  One lock name is modelled; each       *)
(* handle is a DynamoDbMutex object of some process.  Every call of        *)
(* put_item is one atomic step of the store; lock() is two such steps      *)
(* (prune_expired, then write_lock_item) and other handles' steps may fall *)
(* between them.  All processes read one clock, and an operation reads it  *)
(* in the step of its put_item.                                            *)
(*                                                                         *)
(* Spec is the program against a store whose calls may fail; SpecAnswered  *)
(* is the program against a store that evaluates every conditional write.  *)
(***************************************************************************)
EXTENDS Integers

\* ---------------------------------------------------------------- bounds
\* The shared wall clock runs from 1 to MaxTime milliseconds.
MaxTime == 3
\* A handle's timeoutms is drawn from 0..MaxTimeout.
MaxTimeout == 1

\* ------------------------------------------------------------- constants
NO_HOLDER == "__empty__"

\* The DynamoDbMutex objects of the model and the holder strings they may
\* be constructed with (two handles may be given the same holder).
Handles == {"h1", "h2"}
Identities == {"A", "B"}

\* What one put_item call can end with inside the store client:
\*   "ok"          the store evaluated the ConditionExpression (and then
\*                 either applied the write or rejected it),
\*   "ClientError" botocore ClientError with a code other than
\*                 ConditionalCheckFailedException (throttling, auth, ...),
\*   "OtherError"  any exception that is not a ClientError (connectivity).
StoreOutcomes == {"ok", "ClientError", "OtherError"}

\* ---------------------------------------------------------- the lock item
\* The item of the lock name: absent, or {lockname, expire_ts, holder}.
Absent == [exists |-> FALSE, holder |-> "", expire_ts |-> 0]

LockItem(h, e) == [exists |-> TRUE, holder |-> h, expire_ts |-> e]

\* Attr("holder").eq(v): false on an absent item.
holder_eq(tbl, v) == tbl.exists /\ tbl.holder = v

\* Attr("expire_ts").lt(v): false on an absent item.
expire_ts_lt(tbl, v) == tbl.exists /\ tbl.expire_ts < v

\* Attr("lockname").not_exists(): the key attribute is absent iff the item is.
not_exists(tbl) == ~tbl.exists

\* Table.put_item(Item, ConditionExpression): the new table content and the
\* response.  The write is applied only when the store evaluated the
\* condition and found it true.
put_item(tbl, Item, ConditionExpression, out) ==
    IF out = "ok"
    THEN IF ConditionExpression
         THEN [item |-> Item, resp |-> "ok"]
         ELSE [item |-> tbl, resp |-> "ConditionalCheckFailedException"]
    ELSE [item |-> tbl, resp |-> out]

\* The try/except around put_item, the same in the three operations: a
\* ClientError whose code is ConditionalCheckFailedException returns False;
\* a ClientError with any other code is caught, not re-raised, and control
\* falls through to "return True"; any other exception propagates.
except_ClientError(resp) ==
    IF resp = "ConditionalCheckFailedException" THEN "False"
    ELSE IF resp = "OtherError" THEN "raise"
    ELSE "True"

\* write_lock_item made re-entrant as the source's TODO suggests: the
\* condition also accepts an item whose holder is the caller.
write_lock_item_Reentrant(tbl, caller, waitms, ts, out) ==
    LET expire_ts == ts + waitms
        r == put_item(tbl, LockItem(caller, expire_ts),
                      holder_eq(tbl, NO_HOLDER) \/ holder_eq(tbl, caller)
                          \/ not_exists(tbl), out)
    IN  [item |-> r.item, ret |-> except_ClientError(r.resp)]

\* write_lock_item taking over an expired lease in its own write: the
\* condition also accepts an item whose expire_ts has passed.
write_lock_item_TakesExpired(tbl, caller, waitms, ts, out) ==
    LET expire_ts == ts + waitms
        r == put_item(tbl, LockItem(caller, expire_ts),
                      holder_eq(tbl, NO_HOLDER) \/ expire_ts_lt(tbl, ts)
                          \/ not_exists(tbl), out)
    IN  [item |-> r.item, ret |-> except_ClientError(r.resp)]

\* write_lock_item with an unconditional put_item.
write_lock_item_Unconditional(tbl, caller, waitms, ts, out) ==
    LET expire_ts == ts + waitms
        r == put_item(tbl, LockItem(caller, expire_ts), TRUE, out)
    IN  [item |-> r.item, ret |-> except_ClientError(r.resp)]

\* MutexTable.write_lock_item(lockname, caller, waitms); ts is the value
\* timestamp_millis() returned.
write_lock_item(tbl, caller, waitms, ts, out) ==
    LET expire_ts == ts + waitms
        r == put_item(tbl, LockItem(caller, expire_ts),
                      holder_eq(tbl, NO_HOLDER) \/ not_exists(tbl), out)
    IN  [item |-> r.item, ret |-> except_ClientError(r.resp)]

\* clear_lock_item without its holder test: any caller releases.
clear_lock_item_AnyCaller(tbl, caller, out) ==
    LET r == put_item(tbl, LockItem(NO_HOLDER, 0),
                      tbl.exists \/ not_exists(tbl), out)
    IN  [item |-> r.item, ret |-> except_ClientError(r.resp)]

\* clear_lock_item without the not_exists() alternative.
clear_lock_item_NoAbsent(tbl, caller, out) ==
    LET r == put_item(tbl, LockItem(NO_HOLDER, 0),
                      holder_eq(tbl, caller), out)
    IN  [item |-> r.item, ret |-> except_ClientError(r.resp)]

\* clear_lock_item resetting expire_ts but leaving the caller as holder.
clear_lock_item_KeepsHolder(tbl, caller, out) ==
    LET r == put_item(tbl, LockItem(caller, 0),
                      holder_eq(tbl, caller) \/ not_exists(tbl), out)
    IN  [item |-> r.item, ret |-> except_ClientError(r.resp)]

\* clear_lock_item resetting the holder but leaving expire_ts as it was.
clear_lock_item_KeepsExpiry(tbl, caller, out) ==
    LET r == put_item(tbl, LockItem(NO_HOLDER, tbl.expire_ts),
                      holder_eq(tbl, caller) \/ not_exists(tbl), out)
    IN  [item |-> r.item, ret |-> except_ClientError(r.resp)]

\* MutexTable.clear_lock_item(lockname, caller).
clear_lock_item(tbl, caller, out) ==
    LET r == put_item(tbl, LockItem(NO_HOLDER, 0),
                      holder_eq(tbl, caller) \/ not_exists(tbl), out)
    IN  [item |-> r.item, ret |-> except_ClientError(r.resp)]

\* prune_expired with lte(now) for lt(now).
prune_expired_Lte(tbl, caller, ts, out) ==
    LET r == put_item(tbl, LockItem(NO_HOLDER, 0),
                      (tbl.exists /\ tbl.expire_ts <= ts) \/ not_exists(tbl), out)
    IN  [item |-> r.item, ret |-> except_ClientError(r.resp)]

\* prune_expired granting the lease one more millisecond.
prune_expired_Late(tbl, caller, ts, out) ==
    LET r == put_item(tbl, LockItem(NO_HOLDER, 0),
                      expire_ts_lt(tbl, ts - 1) \/ not_exists(tbl), out)
    IN  [item |-> r.item, ret |-> except_ClientError(r.resp)]

\* prune_expired with the comparison turned round: gt(now) for lt(now).
prune_expired_Gt(tbl, caller, ts, out) ==
    LET r == put_item(tbl, LockItem(NO_HOLDER, 0),
                      (tbl.exists /\ tbl.expire_ts > ts) \/ not_exists(tbl), out)
    IN  [item |-> r.item, ret |-> except_ClientError(r.resp)]

\* MutexTable.prune_expired(lockname, caller); ts is the value
\* timestamp_millis() returned ("now" in the source).
prune_expired(tbl, caller, ts, out) ==
    LET r == put_item(tbl, LockItem(NO_HOLDER, 0),
                      expire_ts_lt(tbl, ts) \/ not_exists(tbl), out)
    IN  [item |-> r.item, ret |-> except_ClientError(r.resp)]

\* ------------------------------------------------------------------ state
VARIABLES
    item,       \* the store's item for the lock name
    now,        \* the wall clock all processes share, in ms
    holder,     \* holder[h]: self.holder
    timeoutms,  \* timeoutms[h]: self.timeoutms
    locked,     \* locked[h]: self.locked
    pc,         \* pc[h]: where the handle's caller is
    ctx,        \* ctx[h]: what the prune of h's lock() in progress saw
    lease,      \* lease[h]: expire_ts of the unexpired lease h's lock() obtained,
                \* NoLease, or Lapsed
    acquired,   \* whether the store has ever applied an acquire-write
    last        \* the last call into a handle and what its caller got back

vars == <<item, now, holder, timeoutms, locked, pc, ctx, lease, acquired, last>>

NoLease == -1

\* lease[h] of a handle that is in its protected section, believes it holds
\* the lock, and whose lease has run out without a release.
Lapsed == 0

\* What a lock() in progress remembers of its prune: the item the prune
\* found (saw), whether a release had just given up a lease when it ran
\* (freed), the prune's outcome and result, and what other handles have
\* done at the store since (clean): nothing ("yes"), one acquire-write that
\* the store applied and nothing else ("beaten"), or anything else ("no").
NoCtx == [saw |-> "none", freed |-> "no", out |-> "ok", ret |-> "none",
          clean |-> "no"]

\* The last call: the store operation (op) handle h made at time t on behalf
\* of lock(), __enter__, release() or __exit__ (via), the item it found
\* (before), how the store call ended (out), what the operation returned
\* (ret), the exception its caller got (err), the number of calls of
\* release() it made (releases) and, for __exit__, whether the protected
\* section had raised (exc).
NoOp == [op |-> "none", h |-> "none", via |-> "none", t |-> 0,
         out |-> "ok", ret |-> "none", err |-> "none", before |-> Absent,
         ctx |-> NoCtx, releases |-> 0, exc |-> FALSE]

\* The item as a lock() starting at time t finds it: absent, free, held
\* under a lease that has not expired (t <= expire_ts), or held under an
\* expired lease.
Saw(tbl, t) ==
    IF ~tbl.exists THEN "absent"
    ELSE IF tbl.holder = NO_HOLDER THEN "free"
    ELSE IF t <= tbl.expire_ts THEN "live"
    ELSE "expired"

\* Whether the last call is a release() whose release-write the store
\* applied to an item its caller held, and if so whether the lease it gave
\* up had time left at time t.
Freed(t) ==
    IF /\ last.op = "clear" /\ last.out = "ok" /\ last.ret = "True"
       /\ last.before.exists /\ last.before.holder # NO_HOLDER
    THEN IF t <= last.before.expire_ts THEN "live" ELSE "expired"
    ELSE "no"

\* DynamoDbMutex.__init__: locked = False; holder and timeoutms as given.
\* Holder strings are interchangeable, so h1's is fixed and h2's is either
\* the same or another.
Init ==
    /\ item = Absent
    /\ now = 1
    /\ holder \in {f \in [Handles -> Identities] : f["h1"] = "A"}
    /\ timeoutms \in [Handles -> 0..MaxTimeout]
    /\ locked = [h \in Handles |-> FALSE]
    /\ pc = [h \in Handles |-> "idle"]
    /\ ctx = [h \in Handles |-> NoCtx]
    /\ lease = [h \in Handles |-> NoLease]
    /\ acquired = FALSE
    /\ last = NoOp

\* A store call of handle h falls inside the lock() calls in progress of
\* the other handles; won tells whether it is an applied acquire-write.
Disturb(h, won) ==
    [g \in Handles |->
        IF g # h /\ pc[g] \in {"lock", "enter"}
        THEN [ctx[g] EXCEPT !.clean = IF @ = "yes" /\ won THEN "beaten" ELSE "no"]
        ELSE ctx[g]]

\* The first store call of lock(), reached from lock() (via = "lock") or
\* from __enter__ (via = "enter").  An exception of the call leaves lock().
lock_prune(h, via, out) ==
    LET r == prune_expired(item, holder[h], now, out)
        c == [saw |-> Saw(item, now), freed |-> Freed(now), out |-> out,
              ret |-> r.ret, clean |-> "yes"]
    IN
    /\ pc[h] = "idle"
    /\ item' = r.item
    /\ pc' = [pc EXCEPT ![h] = IF r.ret = "raise" THEN "idle" ELSE via]
    /\ ctx' = [Disturb(h, FALSE) EXCEPT ![h] = IF r.ret = "raise" THEN NoCtx ELSE c]
    /\ last' = [op |-> "prune", h |-> h, via |-> via, t |-> now,
                out |-> out, ret |-> r.ret,
                err |-> IF r.ret = "raise" THEN "StoreError" ELSE "none",
                before |-> item, ctx |-> c, releases |-> 0, exc |-> FALSE]
    /\ UNCHANGED <<now, holder, timeoutms, locked, lease, acquired>>

\* __enter__ after lock() returned: raise AcquireLockFailedError or enter
\* the protected section.
__enter__(locked_) == IF ~locked_ THEN "AcquireLockFailedError" ELSE "section"

\* lock() returning true only when its prune and its acquire-write both
\* returned true.
lock_write_NeedsPrune(h, out) ==
    LET r == write_lock_item(item, holder[h], timeoutms[h], now, out)
        via == pc[h]
        got == r.ret = "True" /\ ctx[h].ret = "True"
        entered == via = "enter" /\ r.ret # "raise" /\ __enter__(got) = "section"
    IN
    /\ pc[h] \in {"lock", "enter"}
    /\ item' = r.item
    /\ locked' = [locked EXCEPT ![h] = IF r.ret = "raise" THEN @ ELSE got]
    /\ pc' = [pc EXCEPT ![h] = IF entered THEN "section" ELSE "idle"]
    /\ lease' = [lease EXCEPT ![h] = IF r.ret = "True" /\ out = "ok" THEN now + timeoutms[h] ELSE @]
    /\ ctx' = [Disturb(h, out = "ok" /\ r.ret = "True") EXCEPT ![h] = NoCtx]
    /\ acquired' = (acquired \/ (out = "ok" /\ r.ret = "True"))
    /\ last' = [op |-> "write", h |-> h, via |-> via, t |-> now,
                out |-> out, ret |-> r.ret,
                err |-> IF r.ret = "raise" THEN "StoreError"
                        ELSE IF via = "enter" /\ ~entered THEN "AcquireLockFailedError"
                        ELSE "none",
                before |-> item, ctx |-> ctx[h], releases |-> 0, exc |-> FALSE]
    /\ UNCHANGED <<now, holder, timeoutms>>

\* The second store call of lock(): self.locked = write_lock_item(...);
\* return self.locked; and, under __enter__, the check of that result.
lock_write(h, out) ==
    LET r == write_lock_item(item, holder[h], timeoutms[h], now, out)
        via == pc[h]
        entered == via = "enter" /\ r.ret # "raise" /\ __enter__(r.ret = "True") = "section"
    IN
    /\ pc[h] \in {"lock", "enter"}
    /\ item' = r.item
    /\ locked' = [locked EXCEPT ![h] = IF r.ret = "raise" THEN @ ELSE r.ret = "True"]
    /\ pc' = [pc EXCEPT ![h] = IF entered THEN "section" ELSE "idle"]
    /\ lease' = [lease EXCEPT ![h] = IF r.ret = "True" /\ out = "ok" THEN now + timeoutms[h] ELSE @]
    /\ ctx' = [Disturb(h, out = "ok" /\ r.ret = "True") EXCEPT ![h] = NoCtx]
    /\ acquired' = (acquired \/ (out = "ok" /\ r.ret = "True"))
    /\ last' = [op |-> "write", h |-> h, via |-> via, t |-> now,
                out |-> out, ret |-> r.ret,
                err |-> IF r.ret = "raise" THEN "StoreError"
                        ELSE IF via = "enter" /\ ~entered THEN "AcquireLockFailedError"
                        ELSE "none",
                before |-> item, ctx |-> ctx[h], releases |-> 0, exc |-> FALSE]
    /\ UNCHANGED <<now, holder, timeoutms>>

\* release() ending with self.locked = False whatever the release-write
\* returned.
release_Unlocks(h, via, exc, out) ==
    LET r == clear_lock_item(item, holder[h], out) IN
    /\ item' = r.item
    /\ locked' = [locked EXCEPT ![h] = IF r.ret = "raise" THEN @ ELSE FALSE]
    /\ lease' = [lease EXCEPT ![h] = IF r.ret = "True" \/ (via = "exit" /\ @ = Lapsed)
                                      THEN NoLease ELSE @]
    /\ ctx' = Disturb(h, FALSE)
    /\ last' = [op |-> "clear", h |-> h, via |-> via, t |-> now,
                out |-> out, ret |-> r.ret,
                err |-> IF r.ret = "raise" THEN "StoreError" ELSE "none",
                before |-> item, ctx |-> NoCtx, releases |-> 1, exc |-> exc]
    /\ UNCHANGED <<now, holder, timeoutms, acquired>>

\* release() doing nothing on a handle that does not believe it holds the
\* lock.
release_OnlyIfLocked(h, via, exc, out) ==
    LET r == IF locked[h] THEN clear_lock_item(item, holder[h], out)
             ELSE [item |-> item, ret |-> "none"]
    IN
    /\ item' = r.item
    /\ locked' = [locked EXCEPT ![h] = IF r.ret \in {"raise", "none"} THEN @
                                       ELSE ~(r.ret = "True")]
    /\ lease' = [lease EXCEPT ![h] = IF r.ret = "True" \/ (via = "exit" /\ @ = Lapsed)
                                      THEN NoLease ELSE @]
    /\ ctx' = Disturb(h, FALSE)
    /\ last' = [op |-> "clear", h |-> h, via |-> via, t |-> now,
                out |-> out, ret |-> r.ret,
                err |-> IF r.ret = "raise" THEN "StoreError" ELSE "none",
                before |-> item, ctx |-> NoCtx, releases |-> 1, exc |-> exc]
    /\ UNCHANGED <<now, holder, timeoutms, acquired>>

\* DynamoDbMutex.release(): released = clear_lock_item(...);
\* self.locked = not released.  An exception leaves self.locked as it was.
release(h, via, exc, out) ==
    LET r == clear_lock_item(item, holder[h], out) IN
    /\ item' = r.item
    /\ locked' = [locked EXCEPT ![h] = IF r.ret = "raise" THEN @ ELSE ~(r.ret = "True")]
    /\ lease' = [lease EXCEPT ![h] = IF r.ret = "True" \/ (via = "exit" /\ @ = Lapsed)
                                      THEN NoLease ELSE @]
    /\ ctx' = Disturb(h, FALSE)
    /\ last' = [op |-> "clear", h |-> h, via |-> via, t |-> now,
                out |-> out, ret |-> r.ret,
                err |-> IF r.ret = "raise" THEN "StoreError" ELSE "none",
                before |-> item, ctx |-> NoCtx, releases |-> 1, exc |-> exc]
    /\ UNCHANGED <<now, holder, timeoutms, acquired>>

\* A caller's own release(), outside a `with` block or inside its section.
Release(h, out) ==
    /\ pc[h] \in {"idle", "section"}
    /\ release(h, "release", FALSE, out)
    /\ UNCHANGED pc

\* __exit__ releasing only when the protected section did not raise.
exit_OnlyOnSuccess(h, exc, out) ==
    /\ pc[h] = "section"
    /\ pc' = [pc EXCEPT ![h] = "idle"]
    /\ IF exc
       THEN /\ last' = [NoOp EXCEPT !.op = "exit", !.h = h, !.via = "exit",
                                    !.t = now, !.exc = exc]
            /\ UNCHANGED <<item, locked, lease, ctx, now, holder, timeoutms, acquired>>
       ELSE release(h, "exit", exc, out)

\* DynamoDbMutex.__exit__(exc_type, exc_value, traceback): self.release().
\* exc tells whether the protected section raised.
__exit__(h, exc, out) ==
    /\ pc[h] = "section"
    /\ release(h, "exit", exc, out)
    /\ pc' = [pc EXCEPT ![h] = "idle"]

\* timestamp_millis() advances; a lease whose expire_ts is passed has expired
\* (Lapsed for a handle still in its protected section).
Tick ==
    /\ now < MaxTime
    /\ now' = now + 1
    /\ lease' = [h \in Handles |->
                    IF lease[h] \in {NoLease, Lapsed} \/ now' <= lease[h] THEN lease[h]
                    ELSE IF locked[h] /\ pc[h] = "section" THEN Lapsed ELSE NoLease]
    /\ UNCHANGED <<item, holder, timeoutms, locked, pc, ctx, acquired, last>>

\* ---------------------------------------------------- the specifications
\* The operations a caller can start on a handle, the store ending each
\* put_item in one of `outs`.
Lock(h, outs) == \E out \in outs : lock_prune(h, "lock", out)

Enter(h, outs) == \E out \in outs : lock_prune(h, "enter", out)

Acquire(h, outs) == \E out \in outs : lock_write(h, out)

CallRelease(h, outs) == \E out \in outs : Release(h, out)

Exit(h, outs) == \E exc \in BOOLEAN, out \in outs : __exit__(h, exc, out)

\* The program against a store whose calls may also fail.
Next ==
    \/ Tick
    \/ \E h \in Handles : Lock(h, StoreOutcomes)
    \/ \E h \in Handles : Enter(h, StoreOutcomes)
    \/ \E h \in Handles : Acquire(h, StoreOutcomes)
    \/ \E h \in Handles : CallRelease(h, StoreOutcomes)
    \/ \E h \in Handles : Exit(h, StoreOutcomes)

Spec == Init /\ [][Next]_vars

\* The program against a store that evaluates the condition of every
\* put_item it is sent: the lock protocol proper.
NextAnswered ==
    \/ Tick
    \/ \E h \in Handles : Lock(h, {"ok"})
    \/ \E h \in Handles : Enter(h, {"ok"})
    \/ \E h \in Handles : Acquire(h, {"ok"})
    \/ \E h \in Handles : CallRelease(h, {"ok"})
    \/ \E h \in Handles : Exit(h, {"ok"})

SpecAnswered == Init /\ [][NextAnswered]_vars

\* ------------------------------------------------------------- properties
\* What the last call left in the store when it is an acquire-write of
\* handle h that the store applied.
Written(h) == LockItem(holder[h], last.t + timeoutms[h])

\* C1: mutual exclusion under every interleaving of the store calls.  For
\* handles with distinct holder strings: when a lock() returns true, no other
\* handle has a lease that its own lock() obtained, that it has not released
\* and that has not expired (now <= expire_ts); and of two acquire-writes
\* racing on a record that was free or absent when the second one's lock()
\* pruned, the one the store evaluates second does not return true.
C1_MutualExclusion ==
    /\ \A a \in Handles, b \in Handles :
          ( /\ holder[a] # holder[b]
            /\ last.op = "write" /\ last.h = b /\ last.ret = "True" )
          => lease[a] \in {NoLease, Lapsed}
    /\ (last.op = "write" /\ last.ctx.clean = "beaten") => last.ret # "True"

\* C1 witness: two lock() calls raced on a free or absent record; the first
\* acquire-write won and its lease runs, the second returned false.
C1_Witness ==
    \E a \in Handles, b \in Handles :
        /\ holder[a] # holder[b]
        /\ last.op = "write" /\ last.h = b /\ last.ret = "False"
        /\ last.ctx.saw \in {"absent", "free"} /\ last.ctx.clean = "beaten"
        /\ lease[a] # NoLease /\ now <= lease[a]
        /\ item = LockItem(holder[a], lease[a])

\* C2: a store error is never reported as a result.  A put_item that ends
\* in an error other than the failed condition makes the operation raise,
\* and lock() returns true (and sets locked) only when the store applied
\* its acquire-write.
C2_StoreErrorsPropagate ==
    /\ last.out # "ok" => last.ret = "raise"
    /\ (last.op = "write" /\ last.ret = "True")
          => (item = Written(last.h) /\ locked[last.h])

\* The item the last call found was held under a lease.
FoundHeld == last.before.exists /\ last.before.holder # NO_HOLDER

Free == LockItem(NO_HOLDER, 0)

ReleaseBy(b) == last' # last /\ last'.op = "clear" /\ last'.h = b

C7_ReleaseOnceOnExit ==
    [][ \A h \in Handles :
          (pc[h] = "section" /\ pc'[h] # "section")
          => ( /\ last'.via = "exit" /\ last'.h = h
               /\ last'.releases = 1 /\ last'.op = "clear"
               /\ pc'[h] = "idle" ) ]_vars

\* C7 witness: a protected section raised and __exit__ has called release().
C7_Witness ==
    /\ last.via = "exit" /\ last.exc /\ last.op = "clear" /\ last.releases = 1
    /\ last.ret = "True" /\ pc[last.h] = "idle" /\ ~locked[last.h]

\* C8: scoped acquisition fails closed.  AcquireLockFailedError is raised
\* exactly when the lock() of __enter__ returned false, and then the section
\* is not entered; the section is entered only by an __enter__ whose
\* acquire-write has just succeeded, so that the record is the handle's.
C8_FailsClosed ==
    /\ last.err = "AcquireLockFailedError"
          <=> (last.op = "write" /\ last.via = "enter" /\ last.ret = "False")
    /\ last.err = "AcquireLockFailedError"
          => (pc[last.h] = "idle" /\ ~locked[last.h])
    /\ (last.op = "write" /\ last.via = "enter" /\ pc[last.h] = "section")
          => (last.ret = "True" /\ locked[last.h] /\ item = Written(last.h))
    /\ \A h \in Handles :
          (pc[h] = "section" /\ last.h = h /\ last.op \in {"prune", "write"})
          => (last.op = "write" /\ last.via = "enter")

C10_ReleaseThenLock ==
    /\ (last.op = "clear" /\ FoundHeld /\ last.ret = "True") => item = Free
    /\ (last.op = "write" /\ last.ctx.freed # "no" /\ last.ctx.clean = "yes")
          => (last.ret = "True" /\ item = Written(last.h) /\ locked[last.h])

\* C10 witness: a lock() that followed a release of a lease with time left
\* has acquired the lock.
C10_Witness ==
    /\ last.op = "write" /\ last.ctx.freed = "live" /\ last.ctx.clean = "yes"
    /\ last.ret = "True" /\ item.holder = holder[last.h]

\* The last call found the record held by its own caller's holder string
\* under a lease that had not expired.
FoundOwnLive ==
    /\ FoundHeld /\ last.before.holder = holder[last.h]
    /\ last.t <= last.before.expire_ts

C12_HandleStateMachine ==
    /\ \A h \in Handles : ~locked[h]
    /\ [][ \A h \in Handles :
             (~locked[h] /\ locked'[h])
             => ( /\ last'.op = "write" /\ last'.h = h
                  /\ last'.out = "ok" /\ last'.ret = "True"
                  /\ item' = LockItem(holder[h], now + timeoutms[h]) ) ]_vars

C14_PruneAcquireGap ==
    /\ (last.op = "write" /\ last.ret # "raise")
          => locked[last.h] = (last.ret = "True")
    /\ (last.op = "write" /\ last.ctx.ret = "True" /\ last.ctx.clean = "beaten")
          => (last.ret = "False" /\ ~locked[last.h] /\ item = last.before)

\* C14 witness: a's prune succeeded, b's prune and acquire-write fell
\* between a's prune and a's acquire-write, and a's lock() returned false,
\* the record being b's running lease.
C14_Witness ==
    \E a \in Handles, b \in Handles :
        /\ holder[a] # holder[b]
        /\ last.op = "write" /\ last.h = a
        /\ last.ctx.ret = "True" /\ last.ctx.clean = "beaten"
        /\ last.ret = "False" /\ ~locked[a]
        /\ item.holder = holder[b] /\ lease[b] = item.expire_ts

\* The item is held: it exists and its holder is a holder string.
Held(tbl) == tbl.exists /\ tbl.holder # NO_HOLDER

\* C15: ownership never passes directly between holders.  No step changes
\* the holder field from one holder string to another (a held record is not
\* rewritten at all); a free record (absent or NO_HOLDER) becomes held only
\* by an acquire-write, with the caller as holder; and a held record becomes
\* free only as holder = NO_HOLDER, expire_ts = 0, by a release-write whose
\* caller is the holder or by a prune at a time expire_ts < now.
C15_NoDirectHandover ==
    [][ /\ (Held(item) /\ Held(item')) => item' = item
        /\ (~Held(item) /\ Held(item'))
              => ( /\ last'.op = "write" /\ last'.ret = "True"
                   /\ item' = LockItem(holder[last'.h], now + timeoutms[last'.h]) )
        /\ (Held(item) /\ ~Held(item'))
              => ( /\ item' = Free
                   /\ \/ last'.op = "clear" /\ holder[last'.h] = item.holder
                      \/ last'.op = "prune" /\ item.expire_ts < now ) ]_vars

\* C15 witness: the lock has gone from one holder to another through the
\* free state: b's lock() found a's expired lease, its prune freed the
\* record and its acquire-write, finding the record free, made b the holder.
C15_Witness ==
    \E a \in Handles, b \in Handles :
        /\ holder[a] # holder[b] /\ locked[a]
        /\ last.op = "write" /\ last.h = b /\ last.ret = "True"
        /\ last.ctx.saw = "expired" /\ last.ctx.ret = "True"
        /\ last.before = Free /\ item = Written(b)

\* C16: release() is idempotent on a handle.  A release() of handle h that
\* directly follows a release() of h which freed the record h had acquired
\* (an explicit release() in the protected section followed by the one of
\* __exit__, for one) leaves h Unlocked and the record free, as the first
\* release() did.
C16_ReleaseIdempotent ==
    [][ \A h \in Handles :
          ( /\ last.op = "clear" /\ last.h = h /\ last.ret = "True"
            /\ FoundHeld /\ ~locked[h] /\ item = Free
            /\ ReleaseBy(h) )
          => (~locked'[h] /\ item' = Free) ]_vars

\* The step is a store call of a lock() of handle h: its prune or its
\* acquire-write.
LockStepBy(h) == last' # last /\ last'.h = h /\ last'.op \in {"prune", "write"}

C19_RecordShape ==
    /\ item.exists => (item.holder = NO_HOLDER <=> item.expire_ts = 0)
    /\ Held(item)
          => \E h \in Handles, t \in 1..now :
                item = LockItem(holder[h], t + timeoutms[h])
    /\ (last.op = "write" /\ last.ret = "True")
          => (item = Written(last.h) /\ item.expire_ts >= last.t)

\* C19 witness: an acquire-write at a time after 1 with timeoutms > 0 found
\* the free record a release or a prune had left (holder NO_HOLDER,
\* expire_ts 0) and replaced both fields.
C19_Witness ==
    /\ last.op = "write" /\ last.ret = "True" /\ last.before = Free
    /\ last.t > 1 /\ timeoutms[last.h] > 0
    /\ item = Written(last.h) /\ item.expire_ts > last.t

====
